---- MODULE Spec2Model ----
(***************************************************************************)
(* Model of the chat page (ChatPage): the timeline `messages`, the         *)
(* composer (`inputMessage`, `loading`), the session token kept in         *)
(* localStorage, the router, and the two network calls of the page         *)
(* (GET /chat/history issued at mount, POST /chat issued by sendMessage).  *)
(*                                                                         *)
(* An async function is cut at its awaits: one action per run-to-await     *)
(* segment.  Event handlers are callable whenever the page body is         *)
(* rendered (isAuthenticated); the `disabled` attributes of the input and  *)
(* the button are presentation, the guards that are modelled are the ones  *)
(* inside the handlers.                                                    *)
(***************************************************************************)
EXTENDS Integers, Sequences, FiniteSets, TLC

VARIABLES
    messages,         \* useState<Message[]>([])
    inputMessage,     \* useState("")
    loading,          \* useState(false)
    isAuthenticated,  \* useState(false)
    token,            \* localStorage slot "token"
    route,            \* the route the router was last sent to
    now,              \* last value read from the local clock
    mounted,          \* has the mount effect run
    histCall,         \* the GET /chat/history call of loadChatHistory
    requests,         \* every HTTP request issued so far, in order
    exchanges,        \* one record per accepted sendMessage call: its position, its
                      \* userMessage, and whether it took the 401 branch
    lastEvent         \* the step just taken and its inputs (history variable)

vars == <<messages, inputMessage, loading, isAuthenticated, token, route,
          now, mounted, histCall, requests, exchanges, lastEvent>>

-----------------------------------------------------------------------------
(* Bounds *)

MaxClock == 1    \* the local clock reads 0..MaxClock
MaxSends == 2    \* accepted submits per session
MaxTurns == 2    \* turns in a history response

-----------------------------------------------------------------------------
(* Text is a sequence of one-character strings. *)

WhiteSpace == {" ", "\t", "\n"}

S_hello == <<"h", "e", "l", "l", "o">>
S_ping == <<"p", "i", "n", "g">>
S_hi_there == <<"h", "i", " ", "t", "h", "e", "r", "e">>
S_a == <<"a">>
S_b == <<"b">>

ErrorContent == <<"Sorry, I encountered an error. Please try again.">>

NoToken == "null"
Tokens == {"jwt"}

\* values the user types into the input box (it starts, and is cleared to, "")
Drafts == {<<"\n", " ">>, S_hello}

InvalidDate == -1

\* timestamps as they travel in a response body
WireTimes == {"1970-01-01T00:00:00.002Z"}

\* new Date(string): epoch milliseconds, or Invalid Date
NewDate(s) ==
    CASE s = "1970-01-01T00:00:00.001Z" -> 1
      [] s = "1970-01-01T00:00:00.002Z" -> 2
      [] OTHER -> InvalidDate

RECURSIVE TrimStart(_)
TrimStart(s) ==
    IF s # <<>> /\ Head(s) \in WhiteSpace THEN TrimStart(Tail(s)) ELSE s

RECURSIVE TrimEnd(_)
TrimEnd(s) ==
    IF s # <<>> /\ s[Len(s)] \in WhiteSpace
    THEN TrimEnd(SubSeq(s, 1, Len(s) - 1))
    ELSE s

\* String.prototype.trim
Trim(s) == TrimEnd(TrimStart(s))

\* `user-${x}`, `bot-${x}`, `error-${x}`
UserId(x) == "user-" \o ToString(x)
BotId(x) == "bot-" \o ToString(x)
ErrorId(x) == "error-" \o ToString(x)

Message(id, content, isUser, timestamp) ==
    [id |-> id, content |-> content, isUser |-> isUser, timestamp |-> timestamp]

-----------------------------------------------------------------------------
(* What the backend can answer *)

\* a Turn of GET /chat/history
Turns ==
    { [id |-> 1, message |-> S_a, response |-> S_b,
       timestamp |-> "1970-01-01T00:00:00.001Z"],
      [id |-> 0, message |-> S_ping, response |-> S_hi_there,
       timestamp |-> "not a date"] }

RECURSIVE SeqsUpTo(_, _)
SeqsUpTo(S, n) ==
    IF n = 0 THEN {<<>>}
    ELSE LET shorter == SeqsUpTo(S, n - 1)
         IN  shorter \cup {Append(s, x) : s \in {t \in shorter : Len(t) = n - 1}, x \in S}

\* the array of a 2xx answer of GET /chat/history: turn ids are the backend's
\* primary keys, so no turn comes twice
HistoryBodies ==
    {h \in SeqsUpTo(Turns, MaxTurns) :
        \A i, j \in 1..Len(h) : i # j => h[i].id # h[j].id}

\* the body of a 2xx answer of POST /chat
ChatBodies == [response : {S_hi_there}, timestamp : WireTimes]

\* status codes: 200 is ok; 401 unauthorized; 500 any other failure
Statuses == {200, 401, 500}
ResponseOk(status) == status >= 200 /\ status <= 299

\* the step just taken, when it is a step of sendMessage or loadChatHistory
\* (op is "other" otherwise): the exchange it belongs to, how the awaited call
\* came back ("throw", "status", "body", "none") and with what
Event(op, k, outcome, status, body) ==
    [op |-> op, k |-> k, outcome |-> outcome, status |-> status, body |-> body]

Init ==
    /\ messages = <<>>
    /\ inputMessage = <<>>
    /\ loading = FALSE
    /\ isAuthenticated = FALSE
    /\ token \in Tokens \cup {NoToken}
    /\ route = "/chat"
    /\ now = 0
    /\ mounted = FALSE
    /\ histCall = "idle"
    /\ requests = <<>>
    /\ exchanges = <<>>
    /\ lastEvent = Event("other", 0, "none", 0, <<>>)

-----------------------------------------------------------------------------
(* The pieces of loadChatHistory and sendMessage *)

\* the clock can be read as t when the last read was `from`
ClockReads(from) == from..MaxClock

\* history.forEach(...): two Entries per Turn, user then bot
RECURSIVE FormatHistory(_)
FormatHistory(history) ==
    IF history = <<>> THEN <<>>
    ELSE LET item == Head(history)
         IN  << Message(UserId(item.id), item.message, TRUE, NewDate(item.timestamp)),
                Message(BotId(item.id), item.response, FALSE, NewDate(item.timestamp)) >>
             \o FormatHistory(Tail(history))

\* the loaded turns merged after the timeline instead of replacing it
HistoryLoaded_merged(prev, history) == prev \o FormatHistory(history)

\* setMessages(formattedMessages)
HistoryLoaded(prev, history) == FormatHistory(history)

\* loadChatHistory treating 401 as sendMessage does
HistoryBranch_evicts(threw, status) ==
    [json |-> ~threw /\ ResponseOk(status), evict |-> ~threw /\ status = 401]

\* what loadChatHistory does with the settled fetch: go on to response.json()
\* or stop; nothing else
HistoryBranch(threw, status) ==
    [json |-> ~threw /\ ResponseOk(status), evict |-> FALSE]

\* the early return without the loading test
Rejects_draftOnly(draft, isLoading) == Trim(draft) = <<>>

\* the early return of sendMessage
Rejects(draft, isLoading) == Trim(draft) = <<>> \/ isLoading

\* the user Entry built from the input after it was cleared
UserMessage_cleared(draft, t1, t2) == Message(UserId(t1), <<>>, TRUE, t2)

\* const userMessage
UserMessage(draft, t1, t2) == Message(UserId(t1), draft, TRUE, t2)

\* the bot Entry stamped with the local clock
BotMessage_localTime(data, t1, t2) == Message(BotId(t1), data.response, FALSE, t2)

\* const botMessage
BotMessage(data, t1, t2) == Message(BotId(t1), data.response, FALSE, NewDate(data.timestamp))

\* const errorMessage
ErrorMessage(t1, t2) == Message(ErrorId(t1), ErrorContent, FALSE, t2)

\* the 401 branch falling through to the throw
ChatBranch_401Throws(threw, status) ==
    IF threw THEN [json |-> FALSE, evict |-> FALSE, caught |-> TRUE]
    ELSE IF ResponseOk(status) THEN [json |-> TRUE, evict |-> FALSE, caught |-> FALSE]
    ELSE [json |-> FALSE, evict |-> status = 401, caught |-> TRUE]

\* no 401 branch: every non-2xx status throws
ChatBranch_no401(threw, status) ==
    IF threw THEN [json |-> FALSE, evict |-> FALSE, caught |-> TRUE]
    ELSE IF ResponseOk(status) THEN [json |-> TRUE, evict |-> FALSE, caught |-> FALSE]
    ELSE [json |-> FALSE, evict |-> FALSE, caught |-> TRUE]

\* the if / else if / else on the settled fetch and the catch around it:
\* json   - response.ok, go on to response.json()
\* evict  - status 401: remove the token and push /login
\* caught - the catch block runs (fetch threw, or the else branch threw)
ChatBranch(threw, status) ==
    IF threw THEN [json |-> FALSE, evict |-> FALSE, caught |-> TRUE]
    ELSE IF ResponseOk(status) THEN [json |-> TRUE, evict |-> FALSE, caught |-> FALSE]
    ELSE IF status = 401 THEN [json |-> FALSE, evict |-> TRUE, caught |-> FALSE]
    ELSE [json |-> FALSE, evict |-> FALSE, caught |-> TRUE]

\* setLoading(false) after the appends only, not on the 401 path
Finally_notOnEvict(isLoading, branch) == IF branch.evict THEN isLoading ELSE FALSE

\* setLoading(false) on the success and 401 paths only, not after the catch
Finally_notOnCatch(isLoading, branch) == IF branch.caught THEN isLoading ELSE FALSE

\* finally { setLoading(false) }
Finally(isLoading, branch) == FALSE

Pending(k) == exchanges[k].stage \in {"fetch", "json"}

\* the mount effect sending every visitor into the page
MountRedirects_never(tok) == FALSE

\* if (!token) of the mount effect
MountRedirects(tok) == tok = NoToken

\* the input left as it was on submit
ClearedDraft_kept(draft) == draft

\* setInputMessage("")
ClearedDraft(draft) == <<>>

\* the request body built from the input state after the submit cleared it
PostBody_afterClear(draft, cleared) == cleared

\* body: JSON.stringify({ message: inputMessage }), inputMessage being the
\* value this render closed over, not the state just set
PostBody(draft, cleared) == draft

-----------------------------------------------------------------------------
(* Actions *)

\* the mount effect, and loadChatHistory up to its await fetch
useEffect_mount ==
    /\ ~mounted
    /\ mounted' = TRUE
    /\ IF MountRedirects(token)
       THEN /\ route' = "/login"
            /\ UNCHANGED <<isAuthenticated, histCall, requests>>
       ELSE /\ isAuthenticated' = TRUE
            /\ histCall' = "fetch"
            /\ requests' = Append(requests,
                   [method |-> "GET", url |-> "/chat/history", token |-> token, message |-> <<>>])
            /\ UNCHANGED route
    /\ lastEvent' = Event("other", 0, "none", 0, <<>>)
    /\ UNCHANGED <<messages, inputMessage, loading, token, now, exchanges>>

\* loadChatHistory from the settled fetch to await response.json() or the end
loadChatHistory_afterFetch ==
    /\ histCall = "fetch"
    /\ \E threw \in BOOLEAN, status \in Statuses :
         LET branch == HistoryBranch(threw, status)
         IN  /\ threw => status = 200
             /\ histCall' = IF branch.json THEN "json" ELSE "done"
             /\ token' = IF branch.evict THEN NoToken ELSE token
             /\ route' = IF branch.evict THEN "/login" ELSE route
             /\ lastEvent' = Event("loadChatHistory_afterFetch", 0,
                                   IF threw THEN "throw" ELSE "status", status, <<>>)
    /\ UNCHANGED <<messages, inputMessage, loading, isAuthenticated, now, mounted,
                   requests, exchanges>>

\* loadChatHistory from the settled response.json() to the end
loadChatHistory_afterJson ==
    /\ histCall = "json"
    /\ histCall' = "done"
    /\ \/ \E history \in HistoryBodies :
            /\ messages' = HistoryLoaded(messages, history)
            /\ lastEvent' = Event("loadChatHistory_afterJson", 0, "body", 200, history)
       \/ \* the body does not parse, or is not an array
          /\ messages' = messages
          /\ lastEvent' = Event("loadChatHistory_afterJson", 0, "throw", 200, <<>>)
    /\ UNCHANGED <<inputMessage, loading, isAuthenticated, token, route, now, mounted,
                   requests, exchanges>>

\* onChange of the input
setInputMessage ==
    /\ isAuthenticated
    /\ \E value \in Drafts :
         /\ value # inputMessage
         /\ inputMessage' = value
    /\ lastEvent' = Event("other", 0, "none", 0, <<>>)
    /\ UNCHANGED <<messages, loading, isAuthenticated, token, route, now, mounted,
                   histCall, requests, exchanges>>

handleLogout ==
    /\ isAuthenticated
    /\ token' = NoToken
    /\ route' = "/login"
    /\ lastEvent' = Event("other", 0, "none", 0, <<>>)
    /\ UNCHANGED <<messages, inputMessage, loading, isAuthenticated, now, mounted,
                   histCall, requests, exchanges>>

\* sendMessage up to its await fetch (button click, or Enter through handleKeyPress)
sendMessage ==
    /\ isAuthenticated
    /\ IF Rejects(inputMessage, loading)
       THEN /\ lastEvent' = Event("sendMessage", 0, "none", 0, <<>>)
            /\ UNCHANGED <<messages, inputMessage, loading, now, requests, exchanges>>
       ELSE /\ Len(exchanges) < MaxSends
            /\ \E t1 \in ClockReads(now) : \E t2 \in ClockReads(t1) :
                 LET userMessage == UserMessage(inputMessage, t1, t2)
                 IN  /\ messages' = Append(messages, userMessage)
                     /\ exchanges' = Append(exchanges,
                            [stage |-> "fetch", user |-> userMessage, evicted |-> FALSE])
                     /\ now' = t2
            /\ inputMessage' = ClearedDraft(inputMessage)
            /\ loading' = TRUE
            /\ requests' = Append(requests,
                   [method |-> "POST", url |-> "/chat", token |-> token,
                    message |-> PostBody(inputMessage, ClearedDraft(inputMessage))])
            /\ lastEvent' = Event("sendMessage", Len(exchanges) + 1, "none", 0, <<>>)
    /\ UNCHANGED <<isAuthenticated, token, route, mounted, histCall>>

\* sendMessage from the settled fetch to await response.json() or the end
sendMessage_afterFetch ==
    \E k \in 1..Len(exchanges) :
      /\ exchanges[k].stage = "fetch"
      /\ \E threw \in BOOLEAN, status \in Statuses :
         \E t1 \in ClockReads(now) : \E t2 \in ClockReads(t1) :
           LET branch == ChatBranch(threw, status)
           IN  /\ threw => status = 200
               /\ ~branch.caught => t1 = now /\ t2 = now
               /\ exchanges' = [exchanges EXCEPT
                                    ![k].stage = IF branch.json THEN "json" ELSE "settled",
                                    ![k].evicted = branch.evict]
               /\ token' = IF branch.evict THEN NoToken ELSE token
               /\ route' = IF branch.evict THEN "/login" ELSE route
               /\ messages' = IF branch.caught
                              THEN Append(messages, ErrorMessage(t1, t2))
                              ELSE messages
               /\ now' = t2
               /\ loading' = IF branch.json THEN loading ELSE Finally(loading, branch)
               /\ lastEvent' = Event("sendMessage_afterFetch", k,
                                     IF threw THEN "throw" ELSE "status", status, <<>>)
      /\ UNCHANGED <<inputMessage, isAuthenticated, mounted, histCall, requests>>

\* sendMessage from the settled response.json() to the end
sendMessage_afterJson ==
    \E k \in 1..Len(exchanges) :
      /\ exchanges[k].stage = "json"
      /\ exchanges' = [exchanges EXCEPT ![k].stage = "settled"]
      /\ \E t1 \in ClockReads(now) : \E t2 \in ClockReads(t1) :
           /\ now' = t2
           /\ \/ \E data \in ChatBodies :
                   /\ t2 = t1
                   /\ messages' = Append(messages, BotMessage(data, t1, t2))
                   /\ loading' = Finally(loading,
                                     [json |-> FALSE, evict |-> FALSE, caught |-> FALSE])
                   /\ lastEvent' = Event("sendMessage_afterJson", k, "body", 200, data)
              \/ \* the body does not parse, or is null
                 /\ messages' = Append(messages, ErrorMessage(t1, t2))
                 /\ loading' = Finally(loading,
                                   [json |-> FALSE, evict |-> FALSE, caught |-> TRUE])
                 /\ lastEvent' = Event("sendMessage_afterJson", k, "throw", 200, <<>>)
      /\ UNCHANGED <<inputMessage, isAuthenticated, token, route, mounted, histCall,
                     requests>>

Next ==
    \/ useEffect_mount
    \/ loadChatHistory_afterFetch
    \/ loadChatHistory_afterJson
    \/ setInputMessage
    \/ handleLogout
    \/ sendMessage
    \/ sendMessage_afterFetch
    \/ sendMessage_afterJson

Spec == Init /\ [][Next]_vars

-----------------------------------------------------------------------------
(* Vocabulary of the properties *)

Last(s) == s[Len(s)]

\* m is the only Entry added in this step, at the end
AppendedOne == Len(messages') = Len(messages) + 1 /\ SubSeq(messages', 1, Len(messages)) = messages

IsBotEntry(m) == ~m.isUser /\ \E t \in 0..MaxClock : m.id = BotId(t)
IsErrorEntry(m) == ~m.isUser /\ \E t \in 0..MaxClock : m.id = ErrorId(t)

\* this step is a call of sendMessage
SendMessageCalled == lastEvent'.op = "sendMessage"

\* this step issues a POST /chat
PostIssued == Len(requests') > Len(requests) /\ Last(requests').method = "POST"

\* this step ends the sendMessage call of exchange k
Settles(k) == Pending(k) /\ exchanges'[k].stage = "settled"

\* the Entries as (isUser, content) pairs
Shown == [i \in 1..Len(messages) |-> <<messages[i].isUser, messages[i].content>>]

-----------------------------------------------------------------------------
(* Properties *)

\* C1: a call of sendMessage with a draft that is not blank, while loading is
\* false, appends exactly one user Entry holding the draft to the end of the
\* timeline; and the step that issues a POST /chat is a step that has appended
\* it, so the Entry is appended before the call is pending.
C1_OptimisticAppend ==
    [][ /\ (SendMessageCalled /\ Trim(inputMessage) # <<>> /\ ~loading)
            => /\ AppendedOne
               /\ Last(messages').isUser
               /\ Last(messages').content = inputMessage
               /\ PostIssued
        /\ PostIssued
            => /\ AppendedOne
               /\ Last(messages').isUser
               /\ Last(messages').content = inputMessage
      ]_vars

C1_Witness ==
    /\ lastEvent.op = "sendMessage"
    /\ lastEvent.k = 1
    /\ exchanges[1].stage = "fetch"
    /\ Shown = << <<TRUE, S_hello>> >>

\* C2: a call of sendMessage with a blank draft, or while loading is true,
\* changes neither the timeline, the draft, the loading flag nor the token,
\* and issues no request.
C2_RejectedSubmitIsNoOp ==
    [][ (SendMessageCalled /\ (Trim(inputMessage) = <<>> \/ loading))
            => UNCHANGED <<messages, inputMessage, loading, token, requests, exchanges>>
      ]_vars

C2_Witness ==
    /\ lastEvent.op = "sendMessage"
    /\ lastEvent.k = 0
    /\ loading
    /\ inputMessage = S_hello

\* C3: the step that ends the sendMessage call of an exchange is exactly one
\* of Resolved (one bot Entry appended, session untouched), Failed (one error
\* Entry appended, session untouched) and Unauthorized (nothing appended, the
\* token removed, the router sent to /login); and an ended call never runs
\* again, so no exchange gets a second transition.
C3_Resolved == AppendedOne /\ IsBotEntry(Last(messages')) /\ UNCHANGED <<token, route>>
C3_Failed == AppendedOne /\ IsErrorEntry(Last(messages')) /\ UNCHANGED <<token, route>>
C3_Unauthorized == messages' = messages /\ token' = NoToken /\ route' = "/login"

C3_ExactlyOneTransition ==
    [][ \A k \in 1..Len(exchanges) :
          /\ Settles(k) =>
                Cardinality({t \in {"Resolved", "Failed", "Unauthorized"} :
                    \/ t = "Resolved" /\ C3_Resolved
                    \/ t = "Failed" /\ C3_Failed
                    \/ t = "Unauthorized" /\ C3_Unauthorized}) = 1
          /\ exchanges[k].stage = "settled" =>
                /\ exchanges'[k].stage = "settled"
                /\ (lastEvent'.op \in {"sendMessage_afterFetch", "sendMessage_afterJson"}
                      => lastEvent'.k # k)
      ]_vars

C3_Witness ==
    /\ Len(exchanges) = 2
    /\ exchanges[1].stage = "settled"
    /\ exchanges[2].stage = "settled"
    /\ lastEvent.op = "sendMessage_afterFetch"
    /\ lastEvent.outcome = "status"
    /\ lastEvent.status = 401
    /\ Len(messages) >= 3

\* C4: the step that ends the sendMessage call of an exchange leaves loading
\* false, whichever way the call came back.
C4_LoadingResetOnSettle ==
    [][ (\E k \in 1..Len(exchanges) : Settles(k)) => loading' = FALSE ]_vars

C4_Witness ==
    /\ lastEvent.op = "sendMessage_afterFetch"
    /\ lastEvent.outcome = "status"
    /\ lastEvent.status = 401
    /\ exchanges[lastEvent.k].stage = "settled"
    /\ ~loading

\* C5: after history of N turns has loaded, the timeline is exactly the 2*N
\* Entries user-{id}, bot-{id} of the turns in the order received, each pair
\* with the turn's message, response and timestamp.
C5_HistoryReplacesTimeline ==
    (lastEvent.op = "loadChatHistory_afterJson" /\ lastEvent.outcome = "body")
        => LET history == lastEvent.body
           IN  /\ Len(messages) = 2 * Len(history)
               /\ \A n \in 1..Len(history) :
                    /\ messages[2 * n - 1] =
                         [id |-> "user-" \o ToString(history[n].id),
                          content |-> history[n].message,
                          isUser |-> TRUE,
                          timestamp |-> NewDate(history[n].timestamp)]
                    /\ messages[2 * n] =
                         [id |-> "bot-" \o ToString(history[n].id),
                          content |-> history[n].response,
                          isUser |-> FALSE,
                          timestamp |-> NewDate(history[n].timestamp)]

C5_Witness ==
    /\ lastEvent.op = "loadChatHistory_afterJson"
    /\ lastEvent.outcome = "body"
    /\ Len(lastEvent.body) = 2
    /\ Len(exchanges) >= 1
    /\ Len(messages) = 4

\* C6: when the POST /chat of an exchange comes back with status 401, the
\* token is removed, the router is sent to /login, and the timeline is left as
\* it was: no bot Entry and no error Entry.
C6_UnauthorizedEvicts ==
    [][ ( /\ lastEvent'.op = "sendMessage_afterFetch"
          /\ lastEvent'.outcome = "status"
          /\ lastEvent'.status = 401 )
            => /\ token' = NoToken
               /\ route' = "/login"
               /\ messages' = messages
      ]_vars

C6_Witness ==
    /\ lastEvent.op = "sendMessage_afterFetch"
    /\ lastEvent.outcome = "status"
    /\ lastEvent.status = 401
    /\ token = NoToken
    /\ route = "/login"
    /\ Shown = << <<TRUE, S_hello>> >>

C8_FailedStep ==
    \/ /\ lastEvent'.op = "sendMessage_afterFetch"
       /\ \/ lastEvent'.outcome = "throw"
          \/ lastEvent'.outcome = "status" /\ lastEvent'.status \notin {200, 401}
    \/ /\ lastEvent'.op = "sendMessage_afterJson"
       /\ lastEvent'.outcome = "throw"

\* C8: when the POST /chat of an exchange throws or comes back with a status
\* that is neither 2xx nor 401, exactly one Entry that is not a user Entry,
\* with the fixed apology as content, is appended to the end of the timeline,
\* and the user Entry of that exchange is the Entry right before it.
C8_FailedAppendsAfterUserEntry ==
    [][ C8_FailedStep
            => /\ AppendedOne
               /\ ~Last(messages').isUser
               /\ Last(messages').content = ErrorContent
               /\ Len(messages) >= 1
               /\ Last(messages) = exchanges[lastEvent'.k].user
      ]_vars

\* C9: a history load that fails (the fetch throws, comes back with a status
\* that is not 2xx, 401 included, or its body does not parse) leaves the token,
\* the route and the timeline as they were.
C9_HistoryFailureKeepsSession ==
    [][ ( \/ /\ lastEvent'.op = "loadChatHistory_afterFetch"
             /\ \/ lastEvent'.outcome = "throw"
                \/ lastEvent'.outcome = "status" /\ lastEvent'.status # 200
          \/ /\ lastEvent'.op = "loadChatHistory_afterJson"
             /\ lastEvent'.outcome = "throw" )
            => UNCHANGED <<token, route, messages>>
      ]_vars

C9_Witness ==
    /\ lastEvent.op = "loadChatHistory_afterFetch"
    /\ lastEvent.outcome = "status"
    /\ lastEvent.status = 401
    /\ histCall = "done"
    /\ token \in Tokens
    /\ route = "/chat"
    /\ Len(messages) = 1

\* C10: the user Entry of every accepted submit is in the timeline in every
\* later state.
C10_UserEntryNeverRolledBack ==
    \A k \in 1..Len(exchanges) :
        \E i \in 1..Len(messages) : messages[i] = exchanges[k].user

\* C11: the timeline changes only in steps taken while a token is in the
\* session store.
C11_TimelineMutatedOnlyWithToken ==
    [][ messages' # messages => token # NoToken ]_vars

\* the sendMessage calls that have not ended
InFlight == {k \in 1..Len(exchanges) : Pending(k)}

\* C12: at most one POST /chat call is in flight at any time, and loading is
\* true exactly while one is; a call of sendMessage made meanwhile issues none.
C12_AtMostOneInFlight ==
    /\ Cardinality(InFlight) <= 1
    /\ loading <=> InFlight # {}

C12_Witness ==
    /\ lastEvent.op = "sendMessage"
    /\ lastEvent.k = 0
    /\ inputMessage = S_hello
    /\ Len(exchanges) = 1
    /\ exchanges[1].stage = "json"
    /\ InFlight = {1}

\* this step is an accepted submit
Accepted == lastEvent'.op = "sendMessage" /\ lastEvent'.k # 0

\* this step is the sendMessage call of some exchange appending its bot or
\* error Entry
C13_AnswerStep ==
    /\ lastEvent'.op \in {"sendMessage_afterFetch", "sendMessage_afterJson"}
    /\ AppendedOne
    /\ ~Last(messages').isUser

\* C13: no user Entry is appended while the call of an earlier exchange has
\* not ended, and the bot or error Entry of an exchange is appended right
\* after the user Entry of that exchange.
C13_NoInterleaving ==
    [][ /\ Accepted => InFlight = {}
        /\ C13_AnswerStep
             => /\ Len(messages) >= 1
                /\ Last(messages) = exchanges[lastEvent'.k].user
      ]_vars

\* C14: an accepted submit leaves the draft empty and loading true; while the
\* call of the submit has not ended, loading is true and the draft changes
\* only by an edit of the input.
C14_DraftClearedAndLoading ==
    [][ /\ Accepted => inputMessage' = <<>> /\ loading' = TRUE
        /\ (\E k \in 1..Len(exchanges') : exchanges'[k].stage \in {"fetch", "json"})
             => loading' = TRUE
        /\ (InFlight # {} /\ inputMessage' # inputMessage)
             => (lastEvent'.op = "other" /\ inputMessage' \in Drafts)
      ]_vars

C14_Witness ==
    /\ lastEvent.op = "sendMessage_afterFetch"
    /\ InFlight = {lastEvent.k}
    /\ exchanges[lastEvent.k].stage = "json"
    /\ exchanges[lastEvent.k].user.content = S_hello
    /\ inputMessage = <<>>
    /\ loading

\* C15: the mount effect finding no token sends the router to /login, issues
\* no request and leaves the page unauthenticated; a page that is mounted and
\* unauthenticated stays so, with an empty timeline and no request ever issued;
\* and every GET /chat/history carries a token that was present.
C15_NoTokenAtMount ==
    [][ /\ (~mounted /\ mounted' /\ token = NoToken)
             => /\ route' = "/login"
                /\ requests' = requests
                /\ ~isAuthenticated'
        /\ (mounted' /\ ~isAuthenticated')
             => /\ route' = "/login"
                /\ requests' = <<>>
                /\ messages' = <<>>
                /\ histCall' = "idle"
        /\ (mounted /\ ~isAuthenticated) => ~isAuthenticated'
        /\ \A i \in 1..Len(requests') :
             requests'[i].method = "GET" => requests'[i].token \in Tokens
      ]_vars

C15_Witness ==
    /\ mounted
    /\ ~isAuthenticated
    /\ token = NoToken
    /\ route = "/login"
    /\ requests = <<>>

\* C16: the step in which the sendMessage call of an exchange fails leaves
\* the token and the route as they were and loading false; and a call of
\* sendMessage with a draft that is not blank, made while the failed
\* exchange's error Entry is the last of the timeline, is accepted and issues
\* a new POST /chat.
C16_FailureAllowsRetry ==
    [][ /\ C8_FailedStep
             => /\ UNCHANGED <<token, route>>
                /\ loading' = FALSE
        /\ ( /\ SendMessageCalled
             /\ messages # <<>>
             /\ IsErrorEntry(Last(messages))
             /\ Trim(inputMessage) # <<>> )
             => /\ PostIssued
                /\ AppendedOne
                /\ Last(messages').isUser
                /\ Len(exchanges') = Len(exchanges) + 1
      ]_vars

C16_Witness ==
    /\ lastEvent.op = "sendMessage"
    /\ lastEvent.k = 2
    /\ token \in Tokens
    /\ route = "/chat"
    /\ Shown = << <<TRUE, S_hello>>, <<FALSE, ErrorContent>>, <<TRUE, S_hello>> >>
    /\ Len(requests) = 3

\* the Auth Guard has been triggered: the mount effect found no token, or the
\* sendMessage call of some exchange took the 401 branch
GuardTriggered ==
    \/ mounted /\ ~isAuthenticated
    \/ \E k \in 1..Len(exchanges) : exchanges[k].evicted

\* C17: once the Auth Guard has been triggered, the timeline, the draft and
\* the loading flag never change again and no further request is issued.
C17_GuardIsTerminal ==
    [][ GuardTriggered => UNCHANGED <<messages, inputMessage, loading, requests>> ]_vars

\* C18: the Entries of the timeline have pairwise distinct ids.
C18_DistinctIds ==
    \A i, j \in 1..Len(messages) : i # j => messages[i].id # messages[j].id

IsPost(r) == r.method = "POST"

\* C19: the k-th POST /chat issued carries, as its message, the content of the
\* user Entry appended for the k-th accepted submit, which is the draft as it
\* was when sendMessage was called.
C19_BodyIsSubmittedDraft ==
    LET posts == SelectSeq(requests, IsPost)
    IN  /\ Len(posts) = Len(exchanges)
        /\ \A k \in 1..Len(exchanges) :
             /\ posts[k].message = exchanges[k].user.content
             /\ Trim(posts[k].message) # <<>>

C19_Witness ==
    /\ lastEvent.op = "sendMessage"
    /\ lastEvent.k = 1
    /\ inputMessage = <<>>
    /\ Last(requests).method = "POST"
    /\ Last(requests).message = S_hello
    /\ Last(messages).content = S_hello

====
